---- MODULE Spec2Model ----
(***************************************************************************)
(* Model of release_handler.py: the ReleaseHandler class and the main()    *)
(* driver that derives the next version tag and the release notes from the *)
(* commit subjects since the previous release and the Shortcut stories     *)
(* they mention.                                                           *)
(*                                                                         *)
(* Strings are sequences of one-character strings, so that lower(),        *)
(* strip(), split(), lstrip(), the regular expressions and the version     *)
(* parser are computed character by character.  Texts that the program     *)
(* only copies (story names, the section headings) are single opaque       *)
(* elements of such a sequence.                                            *)
(***************************************************************************)
EXTENDS Integers, Sequences, FiniteSets, TLC

VARIABLES
    env_token,        \* os.getenv('SHORTCUT_API_TOKEN')
    argv,             \* the command line, as argparse sees it
    pc,               \* position of main()
    prev_version,     \* Version parsed from --prev-version
    commit_messages,  \* result of get_commits_between_releases
    story_ids,        \* result of extract_story_ids
    idx,              \* position of the loop of categorize_stories
    categories,       \* the dict built by categorize_stories
    current_tag,      \* result of get_current_tag
    new_version,      \* the Version that is printed
    release_notes,    \* result of generate_release_notes
    stdout,           \* what was printed to standard output
    exit_code,        \* the process's exit status, NotExited while running
    effects           \* the subprocess runs, HTTP requests and prints, in order

vars == <<env_token, argv, pc, prev_version, commit_messages, story_ids, idx,
          categories, current_tag, new_version, release_notes, stdout,
          exit_code, effects>>

----------------------------------------------------------------------------
(* Bounds of the model                                                     *)

MaxLogTokens == 2
MaxTags == 1
MaxSubjectTokens == 4
MaxBucket == 2

----------------------------------------------------------------------------
(* Strings                                                                 *)

None == <<"<None>">>
NotExited == -1

Truthy(x) == x # None /\ x # <<>>

Range(s) == {s[i] : i \in DOMAIN s}

SeqsUpTo(S, n) == UNION {[1..k -> S] : k \in 0..n}

RECURSIVE Concat(_)
Concat(ss) == IF ss = <<>> THEN <<>> ELSE Head(ss) \o Concat(Tail(ss))

NoDuplicates(s) == \A i, j \in DOMAIN s : i # j => s[i] # s[j]

Orderings(S) == {p \in [1..Cardinality(S) -> S] : NoDuplicates(p)}

DigitChars == <<"0", "1", "2", "3", "4", "5", "6", "7", "8", "9">>
UpperChars == <<"A", "B", "C", "D", "E", "F", "G", "H", "I", "J", "K", "L", "M",
                "N", "O", "P", "Q", "R", "S", "T", "U", "V", "W", "X", "Y", "Z">>
LowerChars == <<"a", "b", "c", "d", "e", "f", "g", "h", "i", "j", "k", "l", "m",
                "n", "o", "p", "q", "r", "s", "t", "u", "v", "w", "x", "y", "z">>

IsDigit(c) == \E i \in DOMAIN DigitChars : DigitChars[i] = c
IsAlpha(c) == \/ \E i \in DOMAIN UpperChars : UpperChars[i] = c
              \/ \E i \in DOMAIN LowerChars : LowerChars[i] = c
DigitVal(c) == (CHOOSE i \in DOMAIN DigitChars : DigitChars[i] = c) - 1

LowerChar(c) ==
    IF \E i \in DOMAIN UpperChars : UpperChars[i] = c
    THEN LowerChars[CHOOSE i \in DOMAIN UpperChars : UpperChars[i] = c]
    ELSE c

\* str.lower()
Lower(s) == [i \in DOMAIN s |-> LowerChar(s[i])]

IsSpace(c) == c \in {" ", "\n", "\t"}

RECURSIVE LStripSpace(_)
LStripSpace(s) ==
    IF s # <<>> /\ IsSpace(Head(s)) THEN LStripSpace(Tail(s)) ELSE s

RECURSIVE RStripSpace(_)
RStripSpace(s) ==
    IF s # <<>> /\ IsSpace(s[Len(s)])
    THEN RStripSpace(SubSeq(s, 1, Len(s) - 1))
    ELSE s

\* str.strip()
Strip(s) == RStripSpace(LStripSpace(s))

\* str.lstrip(c): every leading c is removed
RECURSIVE LStripChar(_, _)
LStripChar(s, c) ==
    IF s # <<>> /\ Head(s) = c THEN LStripChar(Tail(s), c) ELSE s

\* str.split(c): the pieces between the occurrences of c, empty ones kept
RECURSIVE SplitFrom(_, _, _)
SplitFrom(s, c, cur) ==
    IF s = <<>> THEN <<cur>>
    ELSE IF Head(s) = c THEN <<cur>> \o SplitFrom(Tail(s), c, <<>>)
    ELSE SplitFrom(Tail(s), c, Append(cur, Head(s)))

Split(s, c) == SplitFrom(s, c, <<>>)

\* str.join
RECURSIVE Join(_, _)
Join(parts, sep) ==
    IF parts = <<>> THEN <<>>
    ELSE IF Len(parts) = 1 THEN parts[1]
    ELSE parts[1] \o sep \o Join(Tail(parts), sep)

AllDigits(s) == s # <<>> /\ \A i \in DOMAIN s : IsDigit(s[i])

RECURSIVE StrToInt(_)
StrToInt(s) ==
    IF s = <<>> THEN 0
    ELSE 10 * StrToInt(SubSeq(s, 1, Len(s) - 1)) + DigitVal(s[Len(s)])

RECURSIVE IntToStr(_)
IntToStr(n) ==
    IF n < 10 THEN <<DigitChars[n + 1]>>
    ELSE Append(IntToStr(n \div 10), DigitChars[(n % 10) + 1])

----------------------------------------------------------------------------
(* extract_story_ids                                                       *)

\* the end of the longest run of digits of s that starts at position i
RECURSIVE DigitRunEnd(_, _)
DigitRunEnd(s, i) ==
    IF i <= Len(s) /\ IsDigit(s[i]) THEN DigitRunEnd(s, i + 1) ELSE i - 1

\* whether r'sc-(\d+)' matches s at position i
MatchesAt(s, i) ==
    /\ i + 3 <= Len(s)
    /\ s[i] = "s" /\ s[i + 1] = "c" /\ s[i + 2] = "-"
    /\ IsDigit(s[i + 3])

\* [match.group(1) for match in re.finditer(r'sc-(\d+)', s)], from position i
RECURSIVE FindIterFrom(_, _)
FindIterFrom(s, i) ==
    IF i > Len(s) THEN <<>>
    ELSE IF MatchesAt(s, i)
         THEN <<SubSeq(s, i + 3, DigitRunEnd(s, i + 3))>>
              \o FindIterFrom(s, DigitRunEnd(s, i + 3) + 1)
         ELSE FindIterFrom(s, i + 1)

MessageMatchesCaseSensitive(message) == FindIterFrom(message, 1)

\* re.finditer(story_pattern, message.lower())
MessageMatches(message) == FindIterFrom(Lower(message), 1)

StoryIdOf(digits) == <<"S", "C", "-">> \o digits

\* story_ids after the loop, before list(set(...))
RECURSIVE ExtractedList(_)
ExtractedList(messages) ==
    IF messages = <<>> THEN <<>>
    ELSE LET m == MessageMatches(Head(messages))
         IN  [i \in DOMAIN m |-> StoryIdOf(m[i])] \o ExtractedList(Tail(messages))

ExtractNoDedup(messages) == {ExtractedList(messages)}

\* list(set(story_ids)): the distinct ids, in an order the program does not fix
extract_story_ids(messages) == Orderings(Range(ExtractedList(messages)))

----------------------------------------------------------------------------
(* get_commits_between_releases and get_current_tag                        *)

\* the argument vectors; every argument is a string
GitLogCmd(base, head, repo_path) ==
    IF Truthy(repo_path)
    THEN <<<<"git">>, <<"-C">>, repo_path, <<"log">>,
           base \o <<".", ".">> \o head, <<"--format=%s">>>>
    ELSE <<<<"git">>, <<"log">>, base \o <<".", ".">> \o head, <<"--format=%s">>>>

GitTagCmd(repo_path) ==
    IF Truthy(repo_path)
    THEN <<<<"git">>, <<"-C">>, repo_path, <<"tag">>, <<"--points-at">>, <<"HEAD">>>>
    ELSE <<<<"git">>, <<"tag">>, <<"--points-at">>, <<"HEAD">>>>

\* a finished subprocess: its exit status and its standard output
ProcFailed == [returncode |-> 1, stdout |-> <<>>]
ProcOk(out) == [returncode |-> 0, stdout |-> out]

\* the value get_commits_between_releases returns for a finished git log
CommitsOf(result) ==
    IF result.returncode # 0 THEN <<>>
    ELSE Split(Strip(result.stdout), "\n")

\* re.match(r'^v[0-9]+\.[0-9]+\.[0-9]+$', tag), for a tag without line breaks
IsVersionTag(tag) ==
    /\ tag # <<>>
    /\ Head(tag) = "v"
    /\ LET parts == Split(Tail(tag), ".")
       IN  Len(parts) = 3 /\ \A i \in 1..3 : AllDigits(parts[i])

VersionTagsOf(result) ==
    SelectSeq(Split(Strip(result.stdout), "\n"), IsVersionTag)

\* the value get_current_tag returns for a finished git tag
CurrentTagOf(result) ==
    IF result.returncode # 0 THEN None
    ELSE LET version_tags == VersionTagsOf(result)
         IN  IF version_tags # <<>> THEN version_tags[1] ELSE None

----------------------------------------------------------------------------
(* semantic_version.Version, as main() uses it                             *)

NoVersion == [valid |-> FALSE, major |-> 0, minor |-> 0, patch |-> 0,
              prerelease |-> <<>>]

MkVersion(major, minor, patch) ==
    [valid |-> TRUE, major |-> major, minor |-> minor, patch |-> patch,
     prerelease |-> <<>>]

FirstIndexOf(s, c) ==
    IF \E i \in DOMAIN s : s[i] = c
    THEN CHOOSE i \in DOMAIN s : s[i] = c /\ \A j \in 1..(i - 1) : s[j] # c
    ELSE 0

HasLeadingZero(digits) == Len(digits) > 1 /\ Head(digits) = "0"

ValidIdentifiers(s) ==
    /\ \A i \in DOMAIN s : IsDigit(s[i]) \/ IsAlpha(s[i]) \/ s[i] \in {".", "-"}
    /\ LET ids == Split(s, ".")
       IN  \A i \in DOMAIN ids :
               /\ ids[i] # <<>>
               /\ ~(AllDigits(ids[i]) /\ HasLeadingZero(ids[i]))

\* Version(version_string): valid is FALSE where the constructor raises ValueError.
\* Build metadata ('+...') is left out: no version string of the model has any.
Version(version_string) ==
    LET dash == FirstIndexOf(version_string, "-")
        core == IF dash = 0 THEN version_string
                ELSE SubSeq(version_string, 1, dash - 1)
        pre == IF dash = 0 THEN <<>>
               ELSE SubSeq(version_string, dash + 1, Len(version_string))
        parts == Split(core, ".")
        ok == /\ Len(parts) = 3
              /\ \A i \in 1..3 : AllDigits(parts[i]) /\ ~HasLeadingZero(parts[i])
              /\ dash # 0 => ValidIdentifiers(pre)
    IN  IF ok
        THEN [valid |-> TRUE, major |-> StrToInt(parts[1]),
              minor |-> StrToInt(parts[2]), patch |-> StrToInt(parts[3]),
              prerelease |-> pre]
        ELSE NoVersion

\* str(version)
VersionStr(v) ==
    IntToStr(v.major) \o <<".">> \o IntToStr(v.minor) \o <<".">> \o IntToStr(v.patch)
    \o (IF v.prerelease # <<>> THEN <<"-">> \o v.prerelease ELSE <<>>)

next_minor(v) ==
    IF v.prerelease # <<>> /\ v.patch = 0
    THEN MkVersion(v.major, v.minor, 0)
    ELSE MkVersion(v.major, v.minor + 1, 0)

next_patch_unchanged(v) == MkVersion(v.major, v.minor, v.patch)

next_patch(v) ==
    IF v.prerelease # <<>>
    THEN MkVersion(v.major, v.minor, v.patch)
    ELSE MkVersion(v.major, v.minor, v.patch + 1)

----------------------------------------------------------------------------
(* get_story_details, categorize_stories, determine_version_bump           *)

FEATURE == <<"f", "e", "a", "t", "u", "r", "e">>
BUG == <<"b", "u", "g">>
CHORE == <<"c", "h", "o", "r", "e">>
CategoryKeys == {FEATURE, BUG, CHORE}

EmptyCategories == [k \in CategoryKeys |-> <<>>]

EmptyDict == [k \in {} |-> <<>>]

\* dict.get(key, default)
Get(d, key, default) == IF key \in DOMAIN d THEN d[key] ELSE default

\* str.replace(old, '') for a non-empty old
RECURSIVE Remove(_, _)
Remove(s, old) ==
    IF Len(s) < Len(old) THEN s
    ELSE IF SubSeq(s, 1, Len(old)) = old
         THEN Remove(SubSeq(s, Len(old) + 1, Len(s)), old)
         ELSE <<Head(s)>> \o Remove(Tail(s), old)

shortcut_api_url == <<"https://api.app.shortcut.com/api/v3">>

StoryUrl(story_id) ==
    shortcut_api_url \o <<"/stories/">> \o Remove(Lower(story_id), <<"s", "c", "-">>)

\* an HTTP response: raise_for_status() raises unless ok
HttpFailed == [ok |-> FALSE, json |-> EmptyDict]
HttpOk(body) == [ok |-> TRUE, json |-> body]

\* the value get_story_details returns for a finished request
StoryOf(response) == IF response.ok THEN response.json ELSE EmptyDict

CategorizedNoFold(cats, story_id, story) ==
    LET story_type == Get(story, "story_type", <<>>)
    IN  IF story_type \in DOMAIN cats
        THEN [cats EXCEPT ![story_type] =
                 Append(@, [id |-> story_id,
                            name |-> Get(story, "name", <<>>),
                            description |-> Get(story, "description", <<>>)])]
        ELSE cats

\* one turn of the loop of categorize_stories
Categorized(cats, story_id, story) ==
    LET story_type == Lower(Get(story, "story_type", <<>>))
    IN  IF story_type \in DOMAIN cats
        THEN [cats EXCEPT ![story_type] =
                 Append(@, [id |-> story_id,
                            name |-> Get(story, "name", <<>>),
                            description |-> Get(story, "description", <<>>)])]
        ELSE cats

BumpMinorOnBug(cats) ==
    IF cats[FEATURE] # <<>> THEN "minor"
    ELSE IF cats[BUG] # <<>> THEN "minor"
    ELSE "patch"

determine_version_bump(cats) ==
    IF cats[FEATURE] # <<>> THEN "minor"
    ELSE IF cats[BUG] # <<>> THEN "patch"
    ELSE "patch"

\* getattr(prev_version, f"next_{bump_type}")()
Bumped(v, bump_type) == IF bump_type = "minor" THEN next_minor(v) ELSE next_patch(v)

----------------------------------------------------------------------------
(* generate_release_notes                                                  *)

\* the heading texts, each one opaque element; the emoji between "##" and the
\* title is part of the element and is not spelled out
HEADING_FEATURE == "## Features"
HEADING_BUG == "## Bug Fixes"
HEADING_CHORE == "## Chores"

BulletLine(story, include_story_links) ==
    IF include_story_links
    THEN <<"- [">> \o story.name \o <<"](https://app.shortcut.com/story/">>
         \o Lower(story.id) \o <<")">>
    ELSE <<"- ">> \o story.name

\* what one 'if categories[...]' block appends to notes
SectionNotes(bucket, heading, include_story_links) ==
    IF bucket # <<>>
    THEN <<heading>> \o [i \in DOMAIN bucket |-> BulletLine(bucket[i], include_story_links)]
    ELSE <<>>

NotesBugFirst(cats, include_story_links) ==
    Join(SectionNotes(cats[BUG], <<HEADING_BUG>>, include_story_links)
         \o SectionNotes(cats[FEATURE], <<"\n", HEADING_FEATURE>>, include_story_links)
         \o SectionNotes(cats[CHORE], <<"\n", HEADING_CHORE>>, include_story_links),
         <<"\n">>)

generate_release_notes(cats, include_story_links) ==
    Join(SectionNotes(cats[FEATURE], <<HEADING_FEATURE>>, include_story_links)
         \o SectionNotes(cats[BUG], <<"\n", HEADING_BUG>>, include_story_links)
         \o SectionNotes(cats[CHORE], <<"\n", HEADING_CHORE>>, include_story_links),
         <<"\n">>)

----------------------------------------------------------------------------
(* The inputs of a run                                                     *)

TokenValues == {None, <<>>, <<"t", "o", "k">>}

PrevVersionArgs ==
    { <<"v", "1", ".", "2", ".", "3">>,
      <<"v", "1", ".", "9", ".", "9">>,
      <<"v", "1", ".", "2", ".", "0", "-", "r", "c", "1">>,
      <<"v", "1", ".", "2", ".", "3", "-", "r", "c", "1">>,
      <<"a", "b", "c">>,
      <<"v", "1", ".", "2">> }

RepoPath == <<"r", "e", "p", "o">>

\* the command lines: without --prev-version, with --help, and complete ones
\* (every previous version with and without --include-story-links, and one
\* with --repo-path)
Argvs ==
    { [kind |-> k, prev_version |-> None, repo_path |-> None,
       include_story_links |-> FALSE] : k \in {"missing", "help"} }
    \cup
    { [kind |-> "ok", prev_version |-> p, repo_path |-> None,
       include_story_links |-> b] : p \in PrevVersionArgs, b \in BOOLEAN }
    \cup
    { [kind |-> "ok", prev_version |-> <<"v", "1", ".", "2", ".", "3">>,
       repo_path |-> RepoPath, include_story_links |-> FALSE] }

LogTokens ==
    { <<"s", "c", "-", "1">>,
      <<"f", "i", "x", " ", "S", "C", "-", "2">>,
      <<"\n">> }

GitLogResults ==
    {ProcFailed} \cup {ProcOk(Concat(t)) : t \in SeqsUpTo(LogTokens, MaxLogTokens)}

TagNames ==
    { <<"v", "1", ".", "2", ".", "3">>,
      <<"v", "0", "1", ".", "2", ".", "3">>,
      <<"l", "a", "t", "e", "s", "t">> }

GitTagResults ==
    {ProcFailed}
    \cup {ProcOk(Join(t, <<"\n">>) \o <<"\n">>) : t \in SeqsUpTo(TagNames, MaxTags)}

\* the JSON bodies of the 2xx answers: objects whose story_type, name and
\* description are strings, as the Shortcut API sends them
StoryBodies ==
    { [story_type |-> FEATURE, name |-> <<"Add login">>, description |-> <<"d">>],
      [story_type |-> <<"B", "u", "g">>, name |-> <<"Crash on load">>,
       description |-> <<>>],
      [story_type |-> CHORE, name |-> <<"Bump deps">>, description |-> <<>>],
      [story_type |-> <<"e", "p", "i", "c">>, name |-> <<"Roadmap">>,
       description |-> <<>>] }

HttpResponses == {HttpFailed} \cup {HttpOk(b) : b \in StoryBodies}

----------------------------------------------------------------------------
(* main()                                                                  *)

HelpOutput == [help |-> TRUE]

JsonOutput(version, notes) ==
    [tag |-> <<"v">> \o VersionStr(version), release_notes |-> notes]

\* the external effects of a run, each with what it returned
SubprocessRun(cmd, result) == [kind |-> "subprocess", arg |-> cmd, result |-> result]
HttpGet(url, response) == [kind |-> "http", arg |-> url, result |-> response]
PrintJson == [kind |-> "print", arg |-> <<>>, result |-> <<>>]

Fresh ==
    /\ prev_version = NoVersion
    /\ story_ids = <<>>
    /\ idx = 0
    /\ current_tag = None
    /\ new_version = NoVersion
    /\ release_notes = <<>>
    /\ stdout = <<>>
    /\ exit_code = NotExited
    /\ effects = <<>>

Init ==
    /\ env_token \in TokenValues
    /\ argv \in Argvs
    /\ pc = "parse_args"
    /\ commit_messages = <<>>
    /\ categories = EmptyCategories
    /\ Fresh

\* sys.exit(code), and the return from main() as sys.exit(0)
Exit(code) == pc' = "done" /\ exit_code' = code

\* parser.parse_args(): argparse ends the process itself when --prev-version is
\* missing (status 2, usage on standard error) and on --help (status 0, the
\* help on standard output); SystemExit is no Exception, main() lets it pass
ParseArgs ==
    /\ pc = "parse_args"
    /\ IF argv.kind = "missing"
       THEN Exit(2) /\ UNCHANGED stdout
       ELSE IF argv.kind = "help"
       THEN Exit(0) /\ stdout' = Append(stdout, HelpOutput)
       ELSE pc' = "init_handler" /\ UNCHANGED <<exit_code, stdout>>
    /\ UNCHANGED <<env_token, argv, prev_version, commit_messages, story_ids, idx,
                   categories, current_tag, new_version, release_notes, effects>>

TokenMissingOnlyNone(token) == token = None

\* 'if not self.shortcut_token'
TokenMissing(token) == ~Truthy(token)

\* ReleaseHandler.__init__
InitHandler ==
    /\ pc = "init_handler"
    /\ IF TokenMissing(env_token)
       THEN Exit(1)
       ELSE pc' = "parse_prev" /\ UNCHANGED exit_code
    /\ UNCHANGED <<env_token, argv, prev_version, commit_messages, story_ids, idx,
                   categories, current_tag, new_version, release_notes, stdout,
                   effects>>

\* prev_version = Version(args.prev_version.lstrip('v')), exit 1 on ValueError
ParsePrevVersion ==
    /\ pc = "parse_prev"
    /\ LET v == Version(LStripChar(argv.prev_version, "v"))
       IN  IF ~v.valid
           THEN Exit(1) /\ UNCHANGED prev_version
           ELSE pc' = "get_commits" /\ prev_version' = v /\ UNCHANGED exit_code
    /\ UNCHANGED <<env_token, argv, commit_messages, story_ids, idx, categories,
                   current_tag, new_version, release_notes, stdout, effects>>

\* handler.get_commits_between_releases(args.prev_version, 'HEAD', args.repo_path)
GetCommits ==
    /\ pc = "get_commits"
    /\ \E result \in GitLogResults :
          /\ effects' = Append(effects,
                 SubprocessRun(GitLogCmd(argv.prev_version, <<"HEAD">>,
                                         argv.repo_path), result))
          /\ commit_messages' = CommitsOf(result)
    /\ pc' = "extract"
    /\ UNCHANGED exit_code
    /\ UNCHANGED <<env_token, argv, prev_version, story_ids, idx, categories,
                   current_tag, new_version, release_notes, stdout>>

\* handler.extract_story_ids(commit_messages), then the entry of categorize_stories
ExtractStoryIds ==
    /\ pc = "extract"
    /\ story_ids' \in extract_story_ids(commit_messages)
    /\ categories' = EmptyCategories
    /\ idx' = 1
    /\ pc' = "categorize"
    /\ UNCHANGED <<env_token, argv, prev_version, commit_messages, current_tag,
                   new_version, release_notes, stdout, exit_code, effects>>

\* one turn of the loop of categorize_stories: get_story_details and the append
FetchStory ==
    /\ pc = "categorize"
    /\ idx <= Len(story_ids)
    /\ \E response \in HttpResponses :
          /\ effects' = Append(effects, HttpGet(StoryUrl(story_ids[idx]), response))
          /\ categories' = Categorized(categories, story_ids[idx], StoryOf(response))
    /\ idx' = idx + 1
    /\ UNCHANGED <<env_token, argv, pc, prev_version, commit_messages, story_ids,
                   current_tag, new_version, release_notes, stdout, exit_code>>

\* the loop has ended: handler.get_current_tag(args.repo_path)
GetCurrentTag ==
    /\ pc = "categorize"
    /\ idx > Len(story_ids)
    /\ \E result \in GitTagResults :
          /\ effects' = Append(effects, SubprocessRun(GitTagCmd(argv.repo_path), result))
          /\ current_tag' = CurrentTagOf(result)
    /\ pc' = "resolve"
    /\ UNCHANGED <<env_token, argv, prev_version, commit_messages, story_ids, idx,
                   categories, new_version, release_notes, stdout, exit_code>>

\* the reuse of the tag at HEAD or the bump; a ValueError of Version() reaches
\* 'except Exception', which exits with status 1
ResolveVersion ==
    /\ pc = "resolve"
    /\ IF Truthy(current_tag)
       THEN LET v == Version(LStripChar(current_tag, "v"))
            IN  IF ~v.valid
                THEN Exit(1) /\ UNCHANGED new_version
                ELSE pc' = "notes" /\ new_version' = v /\ UNCHANGED exit_code
       ELSE /\ new_version' = Bumped(prev_version, determine_version_bump(categories))
            /\ pc' = "notes"
            /\ UNCHANGED exit_code
    /\ UNCHANGED <<env_token, argv, prev_version, commit_messages, story_ids, idx,
                   categories, current_tag, release_notes, stdout, effects>>

\* handler.generate_release_notes(categories, include_story_links=...)
GenerateNotes ==
    /\ pc = "notes"
    /\ release_notes' = generate_release_notes(categories, argv.include_story_links)
    /\ pc' = "print"
    /\ UNCHANGED <<env_token, argv, prev_version, commit_messages, story_ids, idx,
                   categories, current_tag, new_version, stdout, exit_code, effects>>

\* print(json.dumps(output)) and the return from main()
PrintOutput ==
    /\ pc = "print"
    /\ stdout' = Append(stdout, JsonOutput(new_version, release_notes))
    /\ effects' = Append(effects, PrintJson)
    /\ Exit(0)
    /\ UNCHANGED <<env_token, argv, prev_version, commit_messages, story_ids, idx,
                   categories, current_tag, new_version, release_notes>>

Next ==
    \/ ParseArgs
    \/ InitHandler
    \/ ParsePrevVersion
    \/ GetCommits
    \/ ExtractStoryIds
    \/ FetchStory
    \/ GetCurrentTag
    \/ ResolveVersion
    \/ GenerateNotes
    \/ PrintOutput

Spec == Init /\ [][Next]_vars

----------------------------------------------------------------------------
(* extract_story_ids alone, over every list of commit subjects made of at  *)
(* most MaxSubjectTokens of the pieces below                               *)

SubjectTokens ==
    { <<"s", "c", "-", "1">>,
      <<"S", "C", "-", "1">>,
      <<"s", "C", "-">>,
      <<"2">>,
      <<"0">>,
      <<"\n">>,
      <<"x">> }

SubjectLists ==
    {Split(Concat(t), "\n") : t \in SeqsUpTo(SubjectTokens, MaxSubjectTokens)}

FixedArgv ==
    [kind |-> "ok", prev_version |-> <<"v", "1", ".", "2", ".", "3">>,
     repo_path |-> None, include_story_links |-> FALSE]

InitExtract ==
    /\ env_token = <<"t", "o", "k">>
    /\ argv = FixedArgv
    /\ pc = "extract"
    /\ commit_messages \in SubjectLists
    /\ categories = EmptyCategories
    /\ Fresh

SpecExtract == InitExtract /\ [][ExtractStoryIds]_vars

----------------------------------------------------------------------------
(* generate_release_notes alone, over every CategoryMap whose buckets hold *)
(* at most MaxBucket of the stories below                                  *)

NoteStories ==
    { [id |-> <<"S", "C", "-", "4", "2">>, name |-> <<"Add login">>,
       description |-> <<>>],
      [id |-> <<"S", "C", "-", "7">>, name |-> <<"Crash on load">>,
       description |-> <<"d">>],
      [id |-> <<"S", "C", "-", "0", "7">>, name |-> <<>>, description |-> <<>>] }

InitNotes ==
    /\ env_token = <<"t", "o", "k">>
    /\ argv \in {[FixedArgv EXCEPT !.include_story_links = b] : b \in BOOLEAN}
    /\ pc = "notes"
    /\ commit_messages = <<>>
    /\ categories \in [CategoryKeys -> SeqsUpTo(NoteStories, MaxBucket)]
    /\ Fresh

SpecNotes == InitNotes /\ [][GenerateNotes]_vars

----------------------------------------------------------------------------
(* Helpers of the properties                                               *)

Finished == pc = "done"

IsJson(out) == DOMAIN out = {"tag", "release_notes"}

\* the run printed exactly one JSON object and exited with status 0
Succeeded == Finished /\ exit_code = 0 /\ Len(stdout) = 1 /\ IsJson(stdout[1])

\* the run exited with status 1 and printed nothing
Failed == Finished /\ exit_code = 1 /\ stdout = <<>>

HttpEffects == SelectSeq(effects, LAMBDA e : e.kind = "http")

BucketIds(k) == {categories[k][i].id : i \in DOMAIN categories[k]}

\* a < b in semantic-version order, for b without a pre-release part
CoreLess(a, b) ==
    \/ a.major < b.major
    \/ a.major = b.major /\ a.minor < b.minor
    \/ a.major = b.major /\ a.minor = b.minor /\ a.patch < b.patch

SemverLess(a, b) ==
    \/ CoreLess(a, b)
    \/ /\ a.major = b.major /\ a.minor = b.minor /\ a.patch = b.patch
       /\ a.prerelease # <<>> /\ b.prerelease = <<>>

V123 == <<"v", "1", ".", "2", ".", "3">>

----------------------------------------------------------------------------
(* C1: whenever the tag check at HEAD finds a tag matching                 *)
(* v<major>.<minor>.<patch>, the run succeeds and prints that tag          *)
(* unchanged, whatever the previous version and the categories are.        *)
C1_TagReused ==
    (Finished /\ Truthy(current_tag))
        => (Succeeded /\ stdout[1].tag = current_tag)

----------------------------------------------------------------------------
(* C2, as claimed: with no version tag at HEAD the printed version is the  *)
(* previous one with minor+1 and patch 0 when there is a feature story,    *)
(* and with patch+1 otherwise; the major component is unchanged.           *)
C2_BumpAsClaimed ==
    (pc \in {"notes", "print", "done"} /\ ~Truthy(current_tag) /\ new_version.valid)
        => /\ new_version.major = prev_version.major
           /\ IF categories[FEATURE] # <<>>
              THEN /\ new_version.minor = prev_version.minor + 1
                   /\ new_version.patch = 0
              ELSE /\ new_version.minor = prev_version.minor
                   /\ new_version.patch = prev_version.patch + 1

(* C2, amended: the same, for a previous version without a pre-release     *)
(* part; from v1.2.3 a feature set prints v1.3.0, and a set without        *)
(* features (bug-only, chore-only, empty) prints v1.2.4.                   *)
C2_BumpWithoutPrerelease ==
    /\ (pc \in {"notes", "print", "done"} /\ ~Truthy(current_tag)
            /\ new_version.valid /\ prev_version.prerelease = <<>>)
          => /\ new_version.major = prev_version.major
             /\ new_version.prerelease = <<>>
             /\ IF categories[FEATURE] # <<>>
                THEN /\ new_version.minor = prev_version.minor + 1
                     /\ new_version.patch = 0
                ELSE /\ new_version.minor = prev_version.minor
                     /\ new_version.patch = prev_version.patch + 1
    /\ (Succeeded /\ ~Truthy(current_tag)
            /\ LStripChar(argv.prev_version, "v") = Tail(V123))
          => stdout[1].tag =
                 IF categories[FEATURE] # <<>>
                 THEN <<"v", "1", ".", "3", ".", "0">>
                 ELSE <<"v", "1", ".", "2", ".", "4">>

C2_Witness ==
    /\ Succeeded
    /\ ~Truthy(current_tag)
    /\ argv.prev_version = V123
    /\ categories[FEATURE] = <<>>
    /\ categories[BUG] # <<>>
    /\ stdout[1].tag = <<"v", "1", ".", "2", ".", "4">>

----------------------------------------------------------------------------
(* C3: the rendered notes hold, in the order Features, Bug Fixes, Chores,  *)
(* the heading of every non-empty bucket and of no other, each followed by *)
(* one bullet per story of the bucket in bucket order: '- <name>', or      *)
(* '- [<name>](https://app.shortcut.com/story/sc-<digits>)' with links;    *)
(* the all-empty map renders the empty string.                             *)
ExpectedBullet(story, links) ==
    IF links
    THEN <<"- [">> \o story.name
         \o <<"](https://app.shortcut.com/story/", "s", "c", "-">>
         \o SubSeq(story.id, 4, Len(story.id)) \o <<")">>
    ELSE <<"- ">> \o story.name

ExpectedSection(k, heading, links) ==
    IF categories[k] = <<>> THEN <<>>
    ELSE <<<<heading>>>>
         \o [i \in DOMAIN categories[k] |-> ExpectedBullet(categories[k][i], links)]

NonBlankLines(text) ==
    IF text = <<>> THEN <<>>
    ELSE SelectSeq(Split(text, "\n"), LAMBDA l : l # <<>>)

C3_NotesRendered ==
    pc \in {"print", "done"} =>
        /\ NonBlankLines(release_notes)
             = ExpectedSection(FEATURE, "## Features", argv.include_story_links)
               \o ExpectedSection(BUG, "## Bug Fixes", argv.include_story_links)
               \o ExpectedSection(CHORE, "## Chores", argv.include_story_links)
        /\ (\A k \in CategoryKeys : categories[k] = <<>>) => release_notes = <<>>

C3_Witness ==
    /\ pc = "print"
    /\ argv.include_story_links
    /\ Len(categories[FEATURE]) = 2
    /\ categories[BUG] = <<>>
    /\ Len(categories[CHORE]) = 1
    /\ release_notes # <<>>

----------------------------------------------------------------------------
(* C4: the first heading of the rendered notes has no blank line before    *)
(* it, whichever section it is: the notes never begin with a line break.   *)
C4_NoLeadingNewline ==
    (pc \in {"print", "done"} /\ release_notes # <<>>) => release_notes[1] # "\n"

----------------------------------------------------------------------------
(* C5: extract_story_ids returns no id twice, every id is SC-<digits>, and *)
(* the ids are exactly those of the places of any subject where 's' or     *)
(* 'S', 'c' or 'C', '-' and a digit follow each other, each with all the   *)
(* digits that follow.                                                     *)
HasIdShape(id) ==
    /\ Len(id) >= 4
    /\ id[1] = "S" /\ id[2] = "C" /\ id[3] = "-"
    /\ \A i \in 4..Len(id) : IsDigit(id[i])

OccursAt(s, i) ==
    /\ i + 3 <= Len(s)
    /\ s[i] \in {"s", "S"} /\ s[i + 1] \in {"c", "C"} /\ s[i + 2] = "-"
    /\ IsDigit(s[i + 3])

DigitsFrom(s, i) ==
    LET j == CHOOSE j \in i..Len(s) :
                 /\ \A k \in i..j : IsDigit(s[k])
                 /\ j = Len(s) \/ ~IsDigit(s[j + 1])
    IN  SubSeq(s, i, j)

PatternIds(messages) ==
    UNION { { <<"S", "C", "-">> \o DigitsFrom(messages[m], i + 3) :
                i \in {i \in DOMAIN messages[m] : OccursAt(messages[m], i)} } :
            m \in DOMAIN messages }

C5_ExtractedIds ==
    pc = "categorize" =>
        /\ NoDuplicates(story_ids)
        /\ \A i \in DOMAIN story_ids : HasIdShape(story_ids[i])
        /\ Range(story_ids) = PatternIds(commit_messages)

C5_Witness ==
    /\ pc = "categorize"
    /\ Len(story_ids) = 1
    /\ \E m \in DOMAIN commit_messages :
         \E i, j \in DOMAIN commit_messages[m] :
            /\ i < j
            /\ OccursAt(commit_messages[m], i) /\ OccursAt(commit_messages[m], j)
            /\ commit_messages[m][i] = "s" /\ commit_messages[m][j] = "S"

----------------------------------------------------------------------------
(* C6: the CategoryMap has exactly the keys feature, bug and chore; every  *)
(* fetched id is at most once in at most one bucket: in the bucket of its  *)
(* case-folded story_type when the request succeeded and the type is one   *)
(* of the three, and in no bucket otherwise; the buckets hold nothing else.*)
FetchedType(n) ==
    IF HttpEffects[n].result.ok
    THEN Lower(HttpEffects[n].result.json.story_type)
    ELSE <<>>

C6_Categorized ==
    (pc \in {"categorize", "resolve", "notes", "print", "done"} /\ idx >= 1) =>
        /\ DOMAIN categories = {FEATURE, BUG, CHORE}
        /\ Len(HttpEffects) = idx - 1
        /\ \A k1, k2 \in DOMAIN categories :
             \A i1 \in DOMAIN categories[k1], i2 \in DOMAIN categories[k2] :
                categories[k1][i1].id = categories[k2][i2].id
                    => (k1 = k2 /\ i1 = i2)
        /\ \A n \in 1..(idx - 1) :
             \A k \in DOMAIN categories :
                story_ids[n] \in BucketIds(k) <=> FetchedType(n) = k
        /\ \A k \in DOMAIN categories :
             BucketIds(k) \subseteq {story_ids[n] : n \in 1..(idx - 1)}

C6_Witness ==
    /\ pc = "resolve"
    /\ Len(story_ids) = 2
    /\ Len(categories[BUG]) = 1
    /\ categories[FEATURE] = <<>> /\ categories[CHORE] = <<>>
    /\ \E n \in 1..2 : HttpEffects[n].result.ok
                        /\ HttpEffects[n].result.json.story_type = <<"B", "u", "g">>
    /\ \E n \in 1..2 : ~HttpEffects[n].result.ok

----------------------------------------------------------------------------
(* C7, as claimed: every run ends with status 0 and exactly one JSON       *)
(* object on standard output, or with status 1 and nothing on standard     *)
(* output.                                                                 *)
C7_TwoOutcomes == Finished => (Succeeded \/ Failed)

(* C7, amended: that holds of every run whose command line argparse        *)
(* accepts (--prev-version given, no --help); such a run fails when the    *)
(* token is missing, when the previous version does not parse, and when    *)
(* Version() raises on the tag at HEAD; before the end nothing is printed. *)
C7_TwoOutcomesWhenArgsParse ==
    /\ (Finished /\ argv.kind = "ok") =>
          /\ Succeeded \/ Failed
          /\ env_token \in {None, <<>>} => Failed
          /\ argv.prev_version \in {<<"a", "b", "c">>, <<"v", "1", ".", "2">>}
                => Failed
          /\ current_tag = <<"v", "0", "1", ".", "2", ".", "3">> => Failed
    /\ ~Finished => (exit_code = NotExited /\ stdout = <<>>)

C7_Witness ==
    /\ Failed
    /\ argv.kind = "ok"
    /\ env_token = None
    /\ argv.prev_version = V123

----------------------------------------------------------------------------
(* C8: a run in which the commit-log subprocess or the tag-check           *)
(* subprocess exited non-zero, or a story request failed, still prints its *)
(* JSON object and exits 0.                                                *)
RecoverableFailure ==
    \/ \E i \in DOMAIN effects :
          effects[i].kind = "subprocess" /\ effects[i].result.returncode # 0
    \/ \E i \in DOMAIN effects :
          effects[i].kind = "http" /\ ~effects[i].result.ok

C8_FailuresRecovered == (Finished /\ RecoverableFailure) => Succeeded

----------------------------------------------------------------------------
(* C9: the effects of a run are, in this order, the git log subprocess,    *)
(* one HTTP GET for each extracted id in turn (no id twice), the git tag   *)
(* subprocess and the print; none happens before the token was found and   *)
(* the previous version parsed, and a successful run has them all.         *)
IsLogCmd(cmd) == \E i \in DOMAIN cmd : cmd[i] = <<"log">>
IsTagCmd(cmd) == \E i \in DOMAIN cmd : cmd[i] = <<"tag">>

C9_EffectOrder ==
    LET n == Len(story_ids)
    IN  /\ effects # <<>> => (env_token = <<"t", "o", "k">> /\ prev_version.valid)
        /\ Len(effects) <= n + 3
        /\ NoDuplicates(story_ids)
        /\ \A i \in DOMAIN effects :
             /\ i = 1 => (effects[i].kind = "subprocess" /\ IsLogCmd(effects[i].arg))
             /\ (2 <= i /\ i <= n + 1) =>
                   /\ effects[i].kind = "http"
                   /\ effects[i].arg = <<"https://api.app.shortcut.com/api/v3",
                                          "/stories/">>
                                        \o SubSeq(story_ids[i - 1], 4,
                                                  Len(story_ids[i - 1]))
             /\ i = n + 2 => (effects[i].kind = "subprocess"
                              /\ IsTagCmd(effects[i].arg))
             /\ i = n + 3 => (effects[i].kind = "print" /\ Finished)
        /\ (Succeeded /\ argv.kind = "ok") => Len(effects) = n + 3

C9_Witness ==
    /\ Succeeded
    /\ Len(effects) = 5
    /\ Len(HttpEffects) = 2
    /\ effects[5].kind = "print"

----------------------------------------------------------------------------
(* C10: in a successful run without a version tag at HEAD the printed tag  *)
(* is a version strictly greater than the previous version, and is not the *)
(* previous-version tag.                                                   *)
C10_TagAdvances ==
    (Succeeded /\ ~Truthy(current_tag)) =>
        LET printed == Version(LStripChar(stdout[1].tag, "v"))
        IN  /\ printed.valid
            /\ SemverLess(prev_version, printed)
            /\ stdout[1].tag # argv.prev_version
            /\ stdout[1].tag # <<"v">> \o VersionStr(prev_version)

C10_Witness ==
    /\ Succeeded
    /\ ~Truthy(current_tag)
    /\ argv.prev_version = <<"v", "1", ".", "2", ".", "3", "-", "r", "c", "1">>
    /\ stdout[1].tag = V123

====
